---- MODULE Spec2Model ----
(***************************************************************************)
(* Model of atom::AutofillPopup (atom/browser/ui/autofill_popup.cc): the   *)
(* placement arithmetic of the autofill suggestion popup, the row          *)
(* geometry, and the popup's attach/detach life cycle on its anchor view.  *)
(*                                                                         *)
(* Four specifications share the variables:                                *)
(*   Spec      the life cycle of one AutofillPopup object                  *)
(*   SpecX     CalculatePopupXAndWidth applied to bounded inputs           *)
(*   SpecY     CalculatePopupYAndHeight applied to bounded inputs          *)
(*   SpecRows  LineFromY and GetRowBounds applied to bounded inputs        *)
(***************************************************************************)
EXTENDS Integers, Sequences, FiniteSets, TLC

VARIABLES
  frame_host_,      \* content::RenderFrameHost* frame_host_
  parent_,          \* views::View* parent_
  view_,            \* AutofillPopupView* view_
  element_bounds_,  \* gfx::Rect element_bounds_ (parent-view coordinates)
  popup_bounds_,    \* gfx::Rect popup_bounds_ (screen coordinates)
  values_,          \* std::vector<base::string16> values_
  labels_,          \* std::vector<base::string16> labels_
  observers,        \* per view: how often the popup is in View::observers_
  view_origin,      \* per view: the screen position of its local (0, 0)
  displays,         \* the screen's displays, as display::Screen reports them
  desired,          \* <<desired_width, desired_height>> of the last UpdatePopupBounds
  lastOp,           \* the operation that ran last
  pc,               \* harness: "call" before the function ran, "done" after
  args,             \* harness: the arguments of the call
  ret               \* harness: the value returned

vars == <<frame_host_, parent_, view_, element_bounds_, popup_bounds_, values_,
          labels_, observers, view_origin, displays, desired, lastOp, pc, args, ret>>

popupVars == <<frame_host_, parent_, view_, element_bounds_, popup_bounds_,
               values_, labels_, observers, view_origin, displays, desired, lastOp>>

(***************************************************************************)
(* Layout constants of atom/browser/ui/autofill_popup.h.                   *)
(***************************************************************************)
kPopupBorderThickness == 1
kEndPadding == 8
kNamePadding == 15
kRowHeight == 24

(***************************************************************************)
(* Bounds of the model.                                                    *)
(***************************************************************************)
\* Largest origin coordinate of a display in SpecX and SpecY.
MaxOrigin == 2
\* Largest pixel extent of a display and of an element in SpecX and SpecY.
MaxSize == 4
\* Largest number of suggestion rows.
MaxRows == 2

NullPtr == "nullptr"

\* std::max and std::min on int.
Max(a, b) == IF a < b THEN b ELSE a
Min(a, b) == IF b < a THEN b ELSE a

(***************************************************************************)
(* gfx geometry.  gfx::Size clamps a negative extent to 0.                 *)
(***************************************************************************)
Point(x, y) == [x |-> x, y |-> y]
Size(w, h) == [width |-> Max(0, w), height |-> Max(0, h)]
Rect(x, y, w, h) == [x |-> x, y |-> y, width |-> Max(0, w), height |-> Max(0, h)]
RectRight(r) == r.x + r.width
RectBottom(r) == r.y + r.height

\* display::Display: bounds() and GetSizeInPixel() = bounds().size() scaled by
\* the device scale factor.
Display(x, y, w, h, scale) ==
  [bounds |-> Rect(x, y, w, h), size_in_pixel |-> Size(w * scale, h * scale)]

(***************************************************************************)
(* CalculatePopupXAndWidth: the pair <<x, width>>.                         *)
(***************************************************************************)
CalculatePopupXAndWidthUncapped(left_display, right_display, popup_required_width, element_bounds, is_rtl) ==
  LET leftmost_display_x == left_display.bounds.x
      rightmost_display_x == right_display.size_in_pixel.width + right_display.bounds.x
      right_growth_start ==
        Max(leftmost_display_x, Min(rightmost_display_x, element_bounds.x))
      left_growth_end ==
        Max(leftmost_display_x, Min(rightmost_display_x, RectRight(element_bounds)))
      right_available == rightmost_display_x - right_growth_start
      left_available == left_growth_end - leftmost_display_x
      popup_width == popup_required_width
      grow_right == <<right_growth_start, popup_width>>
      grow_left == <<left_growth_end - popup_width, popup_width>>
  IN  IF is_rtl
      THEN IF left_available >= popup_width \/ left_available >= right_available
           THEN grow_left ELSE grow_right
      ELSE IF right_available >= popup_width \/ right_available >= left_available
           THEN grow_right ELSE grow_left

CalculatePopupXAndWidthIgnoreRtl(left_display, right_display, popup_required_width, element_bounds, is_rtl) ==
  LET leftmost_display_x == left_display.bounds.x
      rightmost_display_x == right_display.size_in_pixel.width + right_display.bounds.x
      right_growth_start ==
        Max(leftmost_display_x, Min(rightmost_display_x, element_bounds.x))
      left_growth_end ==
        Max(leftmost_display_x, Min(rightmost_display_x, RectRight(element_bounds)))
      right_available == rightmost_display_x - right_growth_start
      left_available == left_growth_end - leftmost_display_x
      popup_width ==
        Min(popup_required_width, Max(right_available, left_available))
      grow_right == <<right_growth_start, popup_width>>
      grow_left == <<left_growth_end - popup_width, popup_width>>
  IN  IF right_available >= popup_width \/ right_available >= left_available
      THEN grow_right ELSE grow_left

CalculatePopupXAndWidth(left_display, right_display, popup_required_width, element_bounds, is_rtl) ==
  LET leftmost_display_x == left_display.bounds.x
      rightmost_display_x == right_display.size_in_pixel.width + right_display.bounds.x
      \* The start coordinate if the popup grows right, the end coordinate if it
      \* grows left, capped to screen space.
      right_growth_start ==
        Max(leftmost_display_x, Min(rightmost_display_x, element_bounds.x))
      left_growth_end ==
        Max(leftmost_display_x, Min(rightmost_display_x, RectRight(element_bounds)))
      right_available == rightmost_display_x - right_growth_start
      left_available == left_growth_end - leftmost_display_x
      popup_width ==
        Min(popup_required_width, Max(right_available, left_available))
      grow_right == <<right_growth_start, popup_width>>
      grow_left == <<left_growth_end - popup_width, popup_width>>
  IN  IF is_rtl
      THEN IF left_available >= popup_width \/ left_available >= right_available
           THEN grow_left ELSE grow_right
      ELSE IF right_available >= popup_width \/ right_available >= left_available
           THEN grow_right ELSE grow_left

(***************************************************************************)
(* CalculatePopupYAndHeight: the pair <<y, height>>.                       *)
(***************************************************************************)
CalculatePopupYAndHeightShrunk(top_display, bottom_display, popup_required_height, element_bounds) ==
  LET topmost_display_y == top_display.bounds.y
      bottommost_display_y == bottom_display.size_in_pixel.height + bottom_display.bounds.y
      top_growth_end ==
        Max(topmost_display_y, Min(bottommost_display_y, element_bounds.y))
      bottom_growth_start ==
        Max(topmost_display_y, Min(bottommost_display_y, RectBottom(element_bounds)))
      top_available == bottom_growth_start - topmost_display_y
      bottom_available == bottommost_display_y - top_growth_end
      popup_height == Min(popup_required_height, Max(top_available, bottom_available))
  IN  IF bottom_available >= popup_required_height \/ bottom_available >= top_available
      THEN <<bottom_growth_start, popup_height>>
      ELSE <<top_growth_end - popup_height, popup_height>>

CalculatePopupYAndHeight(top_display, bottom_display, popup_required_height, element_bounds) ==
  LET topmost_display_y == top_display.bounds.y
      bottommost_display_y == bottom_display.size_in_pixel.height + bottom_display.bounds.y
      \* The start coordinate if the popup grows down, the end coordinate if it
      \* grows up, capped to screen space.
      top_growth_end ==
        Max(topmost_display_y, Min(bottommost_display_y, element_bounds.y))
      bottom_growth_start ==
        Max(topmost_display_y, Min(bottommost_display_y, RectBottom(element_bounds)))
      top_available == bottom_growth_start - topmost_display_y
      bottom_available == bottommost_display_y - top_growth_end
  IN  IF bottom_available >= popup_required_height \/ bottom_available >= top_available
      THEN <<bottom_growth_start, popup_required_height>>   \* below the field
      ELSE <<top_growth_end - popup_required_height, popup_required_height>>  \* above


(***************************************************************************)
(* The object after construction (AutofillPopup::AutofillPopup): nothing   *)
(* is attached, the rectangles and the suggestion vectors are empty.       *)
(***************************************************************************)
Views == {"view1", "view2"}
FrameHosts == {"frame1"}

\* Screen positions a view's local origin can have.
ViewOrigins == {Point(0, 0), Point(70, 30)}

\* The screens the popup runs on: one display; two side by side, the right
\* one with device scale factor 2.
ScreenLayouts ==
  { <<Display(0, 0, 100, 60, 1)>>,
    <<Display(0, 0, 100, 60, 1), Display(100, 0, 50, 30, 2)>> }

Constructed ==
  /\ frame_host_ = NullPtr
  /\ parent_ = NullPtr
  /\ view_ = NullPtr
  /\ element_bounds_ = Rect(0, 0, 0, 0)
  /\ popup_bounds_ = Rect(0, 0, 0, 0)
  /\ values_ = << >>
  /\ labels_ = << >>
  /\ observers = [v \in Views |-> 0]
  /\ desired = <<0, 0>>
  /\ lastOp = "AutofillPopup"

(***************************************************************************)
(* SpecX: CalculatePopupXAndWidth on every input of a small grid, and on   *)
(* the three-display scenario of the specification.                        *)
(***************************************************************************)
DisplayOrigins == 0..MaxOrigin
DisplaySizes == 1..MaxSize
ElementOrigins == (-1)..(MaxOrigin + MaxSize + 1)
ElementSizes == 0..MaxSize
RequiredSizes == 0..(MaxSize + 1)

XCall(ld, rd, w, e, rtl) ==
  [left_display |-> ld, right_display |-> rd, popup_required_width |-> w,
   element_bounds |-> e, is_rtl |-> rtl]

\* Anchor (100, 100, 50, 20); the displays span x = -30 .. 190, so the left side
\* offers 180 and the right side 90; 200 are required.
ScenarioCall ==
  XCall(Display(-30, 0, 110, 200, 1), Display(80, 0, 110, 200, 1), 200,
        Rect(100, 100, 50, 20), FALSE)

InitX ==
  /\ Constructed
  /\ view_origin = [v \in Views |-> Point(0, 0)]
  /\ displays = <<Display(0, 0, 100, 60, 1)>>
  /\ pc = "call"
  /\ \/ \E lx \in DisplayOrigins, lw \in DisplaySizes, rx \in DisplayOrigins,
            rw \in DisplaySizes, w \in RequiredSizes, ex \in ElementOrigins,
            ew \in ElementSizes, rtl \in BOOLEAN :
          args = XCall(Display(lx, 0, lw, 1, 1), Display(rx, 0, rw, 1, 1), w,
                       Rect(ex, 0, ew, 1), rtl)
     \/ args = ScenarioCall
  /\ ret = <<0, 0>>

CallCalculatePopupXAndWidth ==
  /\ pc = "call"
  /\ ret' = CalculatePopupXAndWidth(args.left_display, args.right_display,
                                    args.popup_required_width, args.element_bounds,
                                    args.is_rtl)
  /\ pc' = "done"
  /\ UNCHANGED <<popupVars, args>>

NextX == CallCalculatePopupXAndWidth

SpecX == InitX /\ [][NextX]_vars

(***************************************************************************)
(* SpecY: CalculatePopupYAndHeight on every input of a small grid.         *)
(***************************************************************************)
YCall(td, bd, h, e) ==
  [top_display |-> td, bottom_display |-> bd, popup_required_height |-> h,
   element_bounds |-> e]

InitY ==
  /\ Constructed
  /\ view_origin = [v \in Views |-> Point(0, 0)]
  /\ displays = <<Display(0, 0, 100, 60, 1)>>
  /\ pc = "call"
  /\ \E ty \in DisplayOrigins, th \in DisplaySizes, by \in DisplayOrigins,
        bh \in DisplaySizes, h \in RequiredSizes, ey \in ElementOrigins,
        eh \in ElementSizes :
       args = YCall(Display(0, ty, 1, th, 1), Display(0, by, 1, bh, 1), h,
                    Rect(0, ey, 1, eh))
  /\ ret = <<0, 0>>

CallCalculatePopupYAndHeight ==
  /\ pc = "call"
  /\ ret' = CalculatePopupYAndHeight(args.top_display, args.bottom_display,
                                     args.popup_required_height, args.element_bounds)
  /\ pc' = "done"
  /\ UNCHANGED <<popupVars, args>>

NextY == CallCalculatePopupYAndHeight

SpecY == InitY /\ [][NextY]_vars

(***************************************************************************)
(* Claims about the placement arithmetic.  The quantities below are taken  *)
(* from the arguments of the call, not from the function under test.       *)
(***************************************************************************)
Clamp(lo, hi, v) == IF v > hi THEN (IF lo > hi THEN lo ELSE hi) ELSE (IF v < lo THEN lo ELSE v)

ArgLeft == args.left_display.bounds.x
ArgRight == args.right_display.bounds.x + args.right_display.size_in_pixel.width
ArgAnchorLeft == Clamp(ArgLeft, ArgRight, args.element_bounds.x)
ArgAnchorRight == Clamp(ArgLeft, ArgRight, args.element_bounds.x + args.element_bounds.width)
ArgRightAvailable == ArgRight - ArgAnchorLeft
ArgLeftAvailable == ArgAnchorRight - ArgLeft

ArgTop == args.top_display.bounds.y
ArgBottom == args.bottom_display.bounds.y + args.bottom_display.size_in_pixel.height
ArgAnchorTop == Clamp(ArgTop, ArgBottom, args.element_bounds.y)
ArgAnchorBottom == Clamp(ArgTop, ArgBottom, args.element_bounds.y + args.element_bounds.height)
ArgTopAvailable == ArgAnchorBottom - ArgTop
ArgBottomAvailable == ArgBottom - ArgAnchorTop

XOnSingleDisplay ==
  /\ args.left_display = args.right_display
  /\ ArgLeft <= args.element_bounds.x
  /\ args.element_bounds.x + args.element_bounds.width <= ArgRight

YOnSingleDisplay ==
  /\ args.top_display = args.bottom_display
  /\ ArgTop <= args.element_bounds.y
  /\ args.element_bounds.y + args.element_bounds.height <= ArgBottom

\* C1: for an anchor contained in a single display, every required width >= 0
\* and both text directions, the returned width is between 0 and the required
\* width and [x, x + width] lies within the display's horizontal extent.
C1_WidthCappedOnDisplay ==
  (pc = "done" /\ XOnSingleDisplay) =>
    /\ 0 <= ret[2]
    /\ ret[2] <= args.popup_required_width
    /\ ArgLeft <= ret[1]
    /\ ret[1] + ret[2] <= ArgRight

\* A right-to-left call on a single display whose popup had to be shrunk.
C1_Witness ==
  /\ pc = "done"
  /\ XOnSingleDisplay
  /\ args.is_rtl
  /\ 0 < ret[2]
  /\ ret[2] < args.popup_required_width

\* C2: left-to-right, the popup grows left (x = clamped anchor right edge - width,
\* width = min(required, left-available)) exactly when right-available < required
\* and right-available < left-available, and grows right (x = clamped anchor left
\* edge) otherwise; right-to-left the rule is mirrored.  Required 200 with 180 on
\* the left and 90 on the right grows left with width 180.
C2_DirectionPolicy ==
  pc = "done" =>
    /\ ~args.is_rtl =>
         IF ArgRightAvailable < args.popup_required_width /\ ArgRightAvailable < ArgLeftAvailable
         THEN /\ ret[2] = Min(args.popup_required_width, ArgLeftAvailable)
              /\ ret[1] = ArgAnchorRight - ret[2]
         ELSE ret[1] = ArgAnchorLeft
    /\ args.is_rtl =>
         IF ArgLeftAvailable < args.popup_required_width /\ ArgLeftAvailable < ArgRightAvailable
         THEN ret[1] = ArgAnchorLeft
         ELSE ret[1] = ArgAnchorRight - ret[2]
    /\ args = ScenarioCall => ret = <<-30, 180>>

\* The scenario of the specification, after the call.
C2_Witness ==
  /\ pc = "done"
  /\ args = ScenarioCall
  /\ ArgLeftAvailable = 180
  /\ ArgRightAvailable = 90
  /\ ret = <<150 - 180, 180>>

\* C3: the popup is placed below the anchor (y = clamped anchor bottom) when
\* bottom-available >= required or bottom-available >= top-available, and above
\* (y = clamped anchor top - required) otherwise; the height returned is the
\* required height in every case.
C3_BelowPreferredHeightKept ==
  pc = "done" =>
    /\ ret[2] = args.popup_required_height
    /\ IF \/ ArgBottomAvailable >= args.popup_required_height
          \/ ArgBottomAvailable >= ArgTopAvailable
       THEN ret[1] = ArgAnchorBottom
       ELSE ret[1] = ArgAnchorTop - args.popup_required_height

\* A call placed above the anchor although the space above is too small as well.
C3_Witness ==
  /\ pc = "done"
  /\ ArgBottomAvailable < args.popup_required_height
  /\ ArgBottomAvailable < ArgTopAvailable
  /\ ArgTopAvailable < args.popup_required_height
  /\ ret = <<ArgAnchorTop - args.popup_required_height, args.popup_required_height>>
  /\ ret[1] < ArgTop

\* C9: for an anchor contained in a single display, if the free space below the
\* anchor or the free space above it is at least the required height, the popup
\* lies within the display's vertical extent.
C9_FitsWhenRoom ==
  ( /\ pc = "done"
    /\ YOnSingleDisplay
    /\ \/ ArgBottom - (args.element_bounds.y + args.element_bounds.height)
            >= args.popup_required_height
       \/ args.element_bounds.y - ArgTop >= args.popup_required_height )
  => /\ ArgTop <= ret[1]
     /\ ret[1] + ret[2] <= ArgBottom

(***************************************************************************)
(* Row geometry: GetRowBounds and LineFromY.                               *)
(***************************************************************************)
\* The texts of the model: the empty string and a two-character string.
Texts == { << >>, <<"a", "b">> }

\* The vectors SetItems can be given; the caller passes one label per value.
TextLists == UNION { [1..n -> Texts] : n \in 0..MaxRows }

GetLineCount == Len(values_)

GetRowBoundsNoBorder(index) ==
  Rect(kPopupBorderThickness, index * kRowHeight, popup_bounds_.width - 2 * kPopupBorderThickness, kRowHeight)

GetRowBounds(index) ==
  LET top == kPopupBorderThickness + index * kRowHeight
  IN  Rect(kPopupBorderThickness, top, popup_bounds_.width - 2 * kPopupBorderThickness, kRowHeight)

RECURSIVE LineFromYStrictLoop(_, _, _)
LineFromYStrictLoop(y, i, current_height) ==
  IF i < Len(values_)
  THEN IF y < current_height + kRowHeight
       THEN i
       ELSE LineFromYStrictLoop(y, i + 1, current_height + kRowHeight)
  ELSE Len(values_) - 1

LineFromYStrict(y) == LineFromYStrictLoop(y, 0, kPopupBorderThickness)

\* The loop of LineFromY from row i on, current_height being the bottom edge
\* of row i - 1.  Past the last row it returns values_.size() - 1: for an empty
\* vector the size_t value wraps to its maximum, which converts to the int -1.
RECURSIVE LineFromYLoop(_, _, _)
LineFromYLoop(y, i, current_height) ==
  IF i < Len(values_)
  THEN IF y <= current_height + kRowHeight
       THEN i
       ELSE LineFromYLoop(y, i + 1, current_height + kRowHeight)
  ELSE Len(values_) - 1

LineFromY(y) == LineFromYLoop(y, 0, kPopupBorderThickness)

(***************************************************************************)
(* SpecRows: LineFromY and GetRowBounds on a popup holding any suggestion  *)
(* list of up to MaxRows rows.                                             *)
(***************************************************************************)
RowYs == (-2)..(kPopupBorderThickness + MaxRows * kRowHeight + 2)

RowCalls ==
  { [fn |-> "LineFromY", y |-> y] : y \in RowYs }
  \cup { [fn |-> "GetRowBounds", index |-> i] : i \in 0..MaxRows }

InitRows ==
  /\ frame_host_ = NullPtr
  /\ parent_ = NullPtr
  /\ view_ = NullPtr
  /\ element_bounds_ = Rect(0, 0, 0, 0)
  /\ popup_bounds_ \in { Rect(0, 0, w, 2 * kPopupBorderThickness) : w \in {0, 1, 40} }
  /\ values_ \in TextLists
  /\ labels_ = [i \in 1..Len(values_) |-> << >>]
  /\ observers = [v \in Views |-> 0]
  /\ desired = <<0, 0>>
  /\ lastOp = "AutofillPopup"
  /\ view_origin = [v \in Views |-> Point(0, 0)]
  /\ displays = <<Display(0, 0, 100, 60, 1)>>
  /\ pc = "call"
  /\ args \in RowCalls
  /\ ret = 0

CallLineFromY ==
  /\ pc = "call"
  /\ args.fn = "LineFromY"
  /\ ret' = LineFromY(args.y)
  /\ pc' = "done"
  /\ UNCHANGED <<popupVars, args>>

CallGetRowBounds ==
  /\ pc = "call"
  /\ args.fn = "GetRowBounds"
  /\ ret' = GetRowBounds(args.index)
  /\ pc' = "done"
  /\ UNCHANGED <<popupVars, args>>

NextRows == CallLineFromY \/ CallGetRowBounds

SpecRows == InitRows /\ [][NextRows]_vars

(***************************************************************************)
(* Claims about the row geometry.                                          *)
(***************************************************************************)
LineFromYReturned == pc = "done" /\ args.fn = "LineFromY"

\* The bottom edge of row j: border thickness + (j + 1) row heights.
RowBottomEdge(j) == kPopupBorderThickness + (j + 1) * kRowHeight

RowIndexRule ==
  /\ ret \in 0..(Len(values_) - 1)
  /\ args.y = 0 => ret = 0
  /\ args.y > RowBottomEdge(Len(values_) - 1) => ret = Len(values_) - 1
  /\ \A j \in 0..(ret - 1) : RowBottomEdge(j) < args.y
  /\ args.y <= RowBottomEdge(Len(values_) - 1) => args.y <= RowBottomEdge(ret)

\* C5 as stated: for every suggestion list, LineFromY returns 0 for y = 0, the
\* last index for every y below the last row, and for any y the first row whose
\* bottom edge is >= y, so the result is a valid index of the list.
C5_AsStated == LineFromYReturned => RowIndexRule

\* C5 as amended: the same, for every suggestion list that is not empty.
C5_RowIndexNonEmpty == (LineFromYReturned /\ Len(values_) > 0) => RowIndexRule

\* A y below the last of several rows, answered with the last index.
C5_Witness ==
  /\ LineFromYReturned
  /\ Len(values_) >= 2
  /\ args.y > RowBottomEdge(Len(values_) - 1)
  /\ ret = Len(values_) - 1

\* C10 as stated: for every valid row i and every y inside the rectangle of
\* row i (its top edge included, its bottom edge excluded), LineFromY(y) = i.
C10_AsStated ==
  LineFromYReturned =>
    \A i \in 0..(Len(values_) - 1) :
      (GetRowBounds(i).y <= args.y /\ args.y < GetRowBounds(i).y + GetRowBounds(i).height)
        => ret = i

\* C10 as amended: LineFromY(y) = i for every y with top < y <= top + row height
\* of row i; the top edge itself belongs to the row above (to row 0 for row 0).
C10_InverseHalfOpenAbove ==
  LineFromYReturned =>
    \A i \in 0..(Len(values_) - 1) :
      /\ (GetRowBounds(i).y < args.y /\ args.y <= GetRowBounds(i).y + GetRowBounds(i).height)
           => ret = i
      /\ args.y = GetRowBounds(i).y => ret = Max(0, i - 1)

\* The top edge of the second row, answered with the first row.
C10_Witness ==
  /\ LineFromYReturned
  /\ Len(values_) >= 2
  /\ args.y = GetRowBounds(1).y
  /\ ret = 0

(***************************************************************************)
(* The collaborators of the windowing subsystem, as the popup uses them.   *)
(***************************************************************************)
\* gfx::RectF with coordinates in half pixels, and gfx::ToEnclosedRect: the
\* largest integer rectangle inside it (origin rounded up, far corner down).
RectF(x2, y2, w2, h2) == [x2 |-> x2, y2 |-> y2, w2 |-> w2, h2 |-> h2]
ToCeiledInt(half) == (half + 1) \div 2
ToFlooredInt(half) == half \div 2
ToEnclosedRect(r) ==
  LET min_x == ToCeiledInt(r.x2)
      min_y == ToCeiledInt(r.y2)
      max_x == r.x2 + r.w2
      max_y == r.y2 + r.h2
      width == IF r.w2 = 0 THEN 0 ELSE Max(ToFlooredInt(max_x) - min_x, 0)
      height == IF r.h2 = 0 THEN 0 ELSE Max(ToFlooredInt(max_y) - min_y, 0)
  IN  Rect(min_x, min_y, width, height)

\* The element rectangles CreateView is given: (10.5, 10, 40, 20),
\* (60, 30, 30, 15) and (0, 0, 0.5, 0.5), which encloses no pixel.
ElementRectFs == { RectF(21, 20, 80, 40), RectF(120, 60, 60, 30), RectF(0, 0, 1, 1) }

\* views::View::ConvertPointToScreen: the point moved by the view's position.
ConvertPointToScreen(origins, view, point) ==
  Point(point.x + origins[view].x, point.y + origins[view].y)

\* views::View::AddObserver / RemoveObserver, observers_ kept as a count per
\* view so that a second registration would show; removing an absent observer
\* changes nothing.
AddObserver(obs, view) == [obs EXCEPT ![view] = @ + 1]
RemoveObserver(obs, view) == [obs EXCEPT ![view] = Max(0, @ - 1)]

\* gfx::GetStringWidth: the glyphs of the text at the advance of the font.
GetStringWidth(text, font_list) ==
  Len(text) * (IF font_list = "bold_font_list_" THEN 8 ELSE 6)

GetValueFontListForRow(index) == "bold_font_list_"
GetLabelFontListForRow(index) == "smaller_font_list_"

\* display::Screen::GetDisplayNearestPoint: the display containing the point,
\* else the one at the smallest distance (the first of several).
DistanceToDisplay(d, point) ==
  LET b == d.bounds
      dx == IF point.x < b.x THEN b.x - point.x
            ELSE IF point.x >= RectRight(b) THEN point.x - RectRight(b) + 1 ELSE 0
      dy == IF point.y < b.y THEN b.y - point.y
            ELSE IF point.y >= RectBottom(b) THEN point.y - RectBottom(b) + 1 ELSE 0
  IN  dx * dx + dy * dy

GetDisplayNearestPoint(point) ==
  LET best == CHOOSE i \in 1..Len(displays) :
                /\ \A j \in 1..Len(displays) :
                     DistanceToDisplay(displays[i], point) <= DistanceToDisplay(displays[j], point)
                /\ \A j \in 1..(i - 1) :
                     DistanceToDisplay(displays[j], point) > DistanceToDisplay(displays[i], point)
  IN  displays[best]

(***************************************************************************)
(* Desired size of the popup.                                              *)
(***************************************************************************)
GetDesiredPopupHeight(values) == 2 * kPopupBorderThickness + Len(values) * kRowHeight

\* The loop of GetDesiredPopupWidth from row i on (rows are numbered from 1).
RECURSIVE GetDesiredPopupWidthLoop(_, _, _, _)
GetDesiredPopupWidthLoop(values, labels, i, popup_width) ==
  IF i <= Len(values)
  THEN LET row_size ==
             kEndPadding + 2 * kPopupBorderThickness
               + GetStringWidth(values[i], GetValueFontListForRow(i))
               + GetStringWidth(labels[i], GetLabelFontListForRow(i))
               + (IF Len(labels[i]) > 0 THEN kNamePadding + kEndPadding ELSE 0)
       IN  GetDesiredPopupWidthLoop(values, labels, i + 1, Max(popup_width, row_size))
  ELSE popup_width

GetDesiredPopupWidthFromZero(element_bounds, values, labels) ==
  GetDesiredPopupWidthLoop(values, labels, 1, 0)

GetDesiredPopupWidth(element_bounds, values, labels) ==
  GetDesiredPopupWidthLoop(values, labels, 1, element_bounds.width)

(***************************************************************************)
(* UpdatePopupBounds for the given anchor view, view positions and         *)
(* suggestion vectors: the new popup_bounds_ and the desired size it used. *)
(***************************************************************************)
UpdatePopupBounds(parent, origins, values, labels) ==
  LET origin == ConvertPointToScreen(origins, parent, Point(element_bounds_.x, element_bounds_.y))
      bounds == Rect(origin.x, origin.y, element_bounds_.width, element_bounds_.height)
      desired_width == GetDesiredPopupWidth(element_bounds_, values, labels)
      desired_height == GetDesiredPopupHeight(values)
      is_rtl == FALSE
      top_left_corner_of_popup ==
        Point(origin.x + bounds.width - desired_width, origin.y - desired_height)
      bottom_right_corner_of_popup ==
        Point(origin.x + desired_width, origin.y + bounds.height + desired_height)
      top_left_display == GetDisplayNearestPoint(top_left_corner_of_popup)
      bottom_right_display == GetDisplayNearestPoint(bottom_right_corner_of_popup)
      popup_x_and_width ==
        CalculatePopupXAndWidth(top_left_display, bottom_right_display, desired_width, bounds, is_rtl)
      popup_y_and_height ==
        CalculatePopupYAndHeight(top_left_display, bottom_right_display, desired_height, bounds)
  IN  [popup_bounds |-> Rect(popup_x_and_width[1], popup_y_and_height[1],
                             popup_x_and_width[2], popup_y_and_height[2]),
       desired |-> <<desired_width, desired_height>>]

(***************************************************************************)
(* The operations of AutofillPopup.                                        *)
(***************************************************************************)
\* What Hide leaves in parent_, view_ and the views' observer lists.
AfterHideStillObserving ==
  [parent_ |-> NullPtr, view_ |-> NullPtr, observers |-> observers]

AfterHide ==
  [parent_ |-> NullPtr,
   view_ |-> NullPtr,
   observers |-> IF parent_ # NullPtr THEN RemoveObserver(observers, parent_) ELSE observers]

Hide ==
  /\ parent_' = AfterHide.parent_
  /\ view_' = AfterHide.view_
  /\ observers' = AfterHide.observers
  /\ lastOp' = "Hide"
  /\ UNCHANGED <<frame_host_, element_bounds_, popup_bounds_, values_, labels_,
                 view_origin, displays, desired, pc, args, ret>>

\* The offscreen view proxy of the ENABLE_OSR build belongs to the view and is
\* no state of the popup.
CreateView(frame_host, parent, r) ==
  LET bounds == ToEnclosedRect(r)
      menu_position ==
        ConvertPointToScreen(view_origin, parent, Point(bounds.x, bounds.y + bounds.height))
  IN  /\ frame_host_' = frame_host
      /\ element_bounds_' = bounds
      /\ popup_bounds_' = Rect(menu_position.x, menu_position.y, bounds.width, bounds.height)
      /\ parent_' = parent
      /\ observers' = AddObserver(AfterHide.observers, parent)
      /\ view_' = "view"
      /\ lastOp' = "CreateView"
      /\ UNCHANGED <<values_, labels_, view_origin, displays, desired, pc, args, ret>>

SetItemsKeepsBounds(values, labels) ==
  /\ view_ # NullPtr
  /\ parent_ # NullPtr
  /\ Len(labels) >= Len(values)
  /\ values_' = values
  /\ labels_' = labels
  /\ lastOp' = "SetItems"
  /\ UNCHANGED <<frame_host_, element_bounds_, popup_bounds_, desired, parent_, view_,
                 observers, view_origin, displays, pc, args, ret>>

\* DCHECK(view_) and DCHECK(parent_) are the caller's obligations, and
\* labels_.at(i) throws for fewer labels than values.  OnSuggestionsChanged may
\* hide the popup ("could be hidden after the change").
SetItems(values, labels) ==
  /\ view_ # NullPtr
  /\ parent_ # NullPtr
  /\ Len(labels) >= Len(values)
  /\ values_' = values
  /\ labels_' = labels
  /\ LET update == UpdatePopupBounds(parent_, view_origin, values, labels)
     IN  /\ popup_bounds_' = update.popup_bounds
         /\ desired' = update.desired
  /\ \E hidden \in BOOLEAN :
       IF hidden
       THEN /\ parent_' = AfterHide.parent_
            /\ view_' = AfterHide.view_
            /\ observers' = AfterHide.observers
       ELSE UNCHANGED <<parent_, view_, observers>>
  /\ lastOp' = "SetItems"
  /\ UNCHANGED <<frame_host_, element_bounds_, view_origin, displays, pc, args, ret>>

\* The anchor view tells its observers that it moved or was resized; its new
\* screen position is in place when the observers run.
OnViewBoundsChanged(view, position) ==
  /\ observers[view] > 0
  /\ parent_ # NullPtr
  /\ view_ # NullPtr
  /\ view_origin' = [view_origin EXCEPT ![view] = position]
  /\ LET update == UpdatePopupBounds(parent_, view_origin', values_, labels_)
     IN  /\ popup_bounds_' = update.popup_bounds
         /\ desired' = update.desired
  /\ lastOp' = "OnViewBoundsChanged"
  /\ UNCHANGED <<frame_host_, parent_, view_, element_bounds_, values_, labels_,
                 observers, displays, pc, args, ret>>

\* The anchor view tells its observers that it is being destroyed.
OnViewIsDeleting(view) ==
  /\ observers[view] > 0
  /\ parent_' = AfterHide.parent_
  /\ view_' = AfterHide.view_
  /\ observers' = AfterHide.observers
  /\ lastOp' = "OnViewIsDeleting"
  /\ UNCHANGED <<frame_host_, element_bounds_, popup_bounds_, values_, labels_,
                 view_origin, displays, desired, pc, args, ret>>

Init ==
  /\ Constructed
  /\ view_origin \in [Views -> ViewOrigins]
  /\ displays \in ScreenLayouts
  /\ pc = "popup"
  /\ args = << >>
  /\ ret = << >>

Next ==
  \/ \E frame_host \in FrameHosts, parent \in Views, r \in ElementRectFs :
       CreateView(frame_host, parent, r)
  \/ Hide
  \/ \E values \in TextLists :
       \E labels \in { l \in TextLists : Len(l) = Len(values) } : SetItems(values, labels)
  \/ \E view \in Views, position \in ViewOrigins : OnViewBoundsChanged(view, position)
  \/ \E view \in Views : OnViewIsDeleting(view)

Spec == Init /\ [][Next]_vars

(***************************************************************************)
(* Claims about the life cycle.  The expected values are written out from  *)
(* the anchor, the suggestion list and the displays.                       *)
(***************************************************************************)
RECURSIVE SetMax(_)
SetMax(S) ==
  LET x == CHOOSE y \in S : TRUE
  IN  IF S = {x} THEN x ELSE Max(x, SetMax(S \ {x}))

\* The width of row i: padding, the widths of the two texts (8 per bold glyph
\* of the value, 6 per small glyph of the label), and the padding between the
\* columns when there is a label.
ExpectedRowWidth(values, labels, i) ==
  (kEndPadding + 2 * kPopupBorderThickness) + 8 * Len(values[i]) + 6 * Len(labels[i])
    + (IF labels[i] = << >> THEN 0 ELSE kNamePadding + kEndPadding)

ExpectedWidth(element_bounds, values, labels) ==
  SetMax({element_bounds.width} \cup { ExpectedRowWidth(values, labels, i) : i \in 1..Len(values) })

ExpectedHeight(values) == 2 * kPopupBorderThickness + kRowHeight * Len(values)

\* The anchor rectangle in screen coordinates.
AnchorOnScreen(parent, origins, element_bounds) ==
  Rect(element_bounds.x + origins[parent].x, element_bounds.y + origins[parent].y,
       element_bounds.width, element_bounds.height)

\* The rectangle Reposition computes: the horizontal and the vertical placement
\* of the desired size against the displays nearest to the popup's extreme
\* corners, left-to-right.
RepositionRect(parent, origins, element_bounds, values, labels) ==
  LET anchor == AnchorOnScreen(parent, origins, element_bounds)
      w == ExpectedWidth(element_bounds, values, labels)
      h == ExpectedHeight(values)
      top_left == GetDisplayNearestPoint(Point(anchor.x + anchor.width - w, anchor.y - h))
      bottom_right == GetDisplayNearestPoint(Point(anchor.x + w, anchor.y + anchor.height + h))
      xw == CalculatePopupXAndWidth(top_left, bottom_right, w, anchor, FALSE)
      yh == CalculatePopupYAndHeight(top_left, bottom_right, h, anchor)
  IN  Rect(xw[1], yh[1], xw[2], yh[2])

\* C4 as stated: in every state with an anchor view, popup_bounds_ is the
\* rectangle Reposition computes from the current anchor, suggestion list and
\* displays.
C4_AsStated ==
  parent_ # NullPtr =>
    popup_bounds_ = RepositionRect(parent_, view_origin, element_bounds_, values_, labels_)

\* C4 as amended: SetItems and OnViewBoundsChanged leave popup_bounds_ equal to
\* the rectangle Reposition computes from the anchor, the suggestion list and
\* the displays as they are after the operation; CreateView sets it to the
\* anchor-sized rectangle at the anchor's bottom-left corner on screen; Hide and
\* OnViewIsDeleting leave it as it was.
C4_RepositionedByUpdates ==
  [][ /\ lastOp' \in {"SetItems", "OnViewBoundsChanged"} =>
           popup_bounds_' = RepositionRect(parent_, view_origin', element_bounds_', values_', labels_')
      /\ lastOp' = "CreateView" =>
           LET anchor == AnchorOnScreen(parent_', view_origin', element_bounds_')
           IN  popup_bounds_' = Rect(anchor.x, anchor.y + anchor.height, anchor.width, anchor.height)
      /\ lastOp' \in {"Hide", "OnViewIsDeleting"} => popup_bounds_' = popup_bounds_
    ]_vars

\* The anchor moved, and the repositioned popup was shrunk to the display.
C4_Witness ==
  /\ lastOp = "OnViewBoundsChanged"
  /\ parent_ # NullPtr
  /\ Len(values_) > 0
  /\ popup_bounds_ = RepositionRect(parent_, view_origin, element_bounds_, values_, labels_)
  /\ popup_bounds_.width < desired[1]
  /\ popup_bounds_.height = desired[2]

\* C6: the popup is registered on exactly the view in parent_ and on no other,
\* once; parent_ is set exactly when view_ is; after Hide and OnViewIsDeleting
\* it is registered on no view.
C6_ObserverWhileAttached ==
  /\ \A v \in Views : observers[v] = (IF parent_ = v THEN 1 ELSE 0)
  /\ (parent_ # NullPtr) <=> (view_ # NullPtr)
  /\ lastOp \in {"Hide", "OnViewIsDeleting"} => \A v \in Views : observers[v] = 0

\* The anchor view of a popup that had suggestions was destroyed.
C6_Witness ==
  /\ lastOp = "OnViewIsDeleting"
  /\ Len(values_) > 0
  /\ parent_ = NullPtr
  /\ \A v \in Views : observers[v] = 0

\* C7: the desired height UpdatePopupBounds uses is twice the border thickness
\* plus one row height per row; the desired width is the largest of the anchor
\* width and the row widths, so it is never below the anchor width; for an empty
\* list they are the anchor width and twice the border thickness.
C7_DesiredSize ==
  lastOp \in {"SetItems", "OnViewBoundsChanged"} =>
    /\ desired[2] = ExpectedHeight(values_)
    /\ desired[1] = ExpectedWidth(element_bounds_, values_, labels_)
    /\ desired[1] >= element_bounds_.width
    /\ values_ = << >> => desired = <<element_bounds_.width, 2 * kPopupBorderThickness>>

\* Two rows, one of them labelled and wider than the anchor.
C7_Witness ==
  /\ lastOp = "SetItems"
  /\ Len(values_) = 2
  /\ labels_[1] = << >>
  /\ labels_[2] # << >>
  /\ desired[1] = ExpectedRowWidth(values_, labels_, 2)
  /\ desired[1] > element_bounds_.width
  /\ element_bounds_.width > 0
  /\ desired[2] = 2 * kPopupBorderThickness + 2 * kRowHeight

\* C8: a popup created by CreateView has no suggestions (GetLineCount = 0)
\* until SetItems is called for it.
C8_EmptyAfterCreateView == lastOp = "CreateView" => GetLineCount = 0

====
